---- MODULE Spec2Model ----
(***************************************************************************)
(* A model of the binary search tree of lib/btree-modern.js (class BTree): *)
(* the node graph as a heap of node records, the JavaScript comparison     *)
(* operators the tree orders its keys with, and one action per public      *)
(* method.                                                                 *)
(***************************************************************************)
EXTENDS Integers, Sequences, FiniteSets, TLC

(* ------------------------------------------------------------------ *)
(* Bounds of the model                                                 *)
(* ------------------------------------------------------------------ *)

\* the largest number of nodes a tree holds
MaxNodes == 3

\* the longest array handed to init() or to add()
MaxBulk == 2

\* the number of successful add / remove calls the size accounting follows
MaxCalls == 5

\* the keys 1 .. MaxKeys of the trees of distinct keys
MaxKeys == 5

\* the nodes a tree of the parent-pointer variant holds at most
MaxParentNodes == 4

(* ------------------------------------------------------------------ *)
(* JavaScript values                                                   *)
(* ------------------------------------------------------------------ *)

\* A primitive: t is what helpers.getType answers ("absent" marks a property
\* an object does not own), n the number (or the boolean as 0/1, or the
\* identity of a nested object), s the string as a sequence of char codes.
Prim(t, n, s) == [t |-> t, n |-> n, s |-> s]

PN(i) == Prim("number", i, <<>>)
PS(s) == Prim("string", 0, s)
Undefined == Prim("undefined", 0, <<>>)
Null == Prim("null", 0, <<>>)
Absent == Prim("absent", 0, <<>>)

PropNames == {"id", "name", "length"}

NoProps == [id |-> Absent, name |-> Absent, length |-> Absent]

\* A value handed to the tree: a primitive plus its own properties p.
Value(t, n, s, p) == [t |-> t, n |-> n, s |-> s, p |-> p]

Num(i) == Value("number", i, <<>>, NoProps)
Str(s) == Value("string", 0, s, NoProps)
UndefinedValue == Value("undefined", 0, <<>>, NoProps)
Obj(id, name) == Value("object", 0, <<>>, [id |-> id, name |-> name, length |-> Absent])

PrimOf(v) == Prim(v.t, v.n, v.s)

\* String(obj) of a plain object: "[object Object]"
ObjectString == <<91, 111, 98, 106, 101, 99, 116, 32, 79, 98, 106, 101, 99, 116, 93>>

\* helpers.getType
getType(v) == v.t

\* the strings "id", "name" and "length"
StrId == <<105, 100>>
StrName == <<110, 97, 109, 101>>
StrLength == <<108, 101, 110, 103, 116, 104>>

\* The property a primitive names when it is used as a property key; "none" is
\* a property that no value of the model owns.
PropName(k) ==
    IF k.t # "string" THEN "none"
    ELSE CASE k.s = StrId -> "id"
           [] k.s = StrName -> "name"
           [] k.s = StrLength -> "length"
           [] OTHER -> "none"

\* value[name]
GetProp(v, name) ==
    IF name \notin PropNames THEN Undefined
    ELSE IF v.t = "object"
    THEN (IF v.p[name].t = "absent" THEN Undefined ELSE v.p[name])
    ELSE IF v.t = "string" /\ name = "length" THEN PN(Len(v.s))
    ELSE Undefined

\* value.hasOwnProperty(name)
hasOwnProperty(v, name) ==
    IF name \notin PropNames THEN FALSE
    ELSE IF v.t = "object" THEN v.p[name].t # "absent"
    ELSE v.t = "string" /\ name = "length"

\* a === b on primitives
StrictEq(a, b) == a.t = b.t /\ a.n = b.n /\ a.s = b.s

(* ------------------------------------------------------------------ *)
(* The relational operators of JavaScript                              *)
(* ------------------------------------------------------------------ *)

SetMin(S) == CHOOSE x \in S : \A y \in S : x <= y

\* ToPrimitive with hint number: a plain object becomes "[object Object]"
ToPrimitive(a) == IF a.t = "object" THEN PS(ObjectString) ELSE Prim(a.t, a.n, a.s)

\* the char codes of "0" .. "9" are 48 .. 57
IsDigits(s) == \A k \in 1..Len(s) : s[k] >= 48 /\ s[k] <= 57

RECURSIVE DecimalValue(_)
DecimalValue(s) ==
    IF s = <<>> THEN 0
    ELSE 10 * DecimalValue(SubSeq(s, 1, Len(s) - 1)) + (s[Len(s)] - 48)

\* ToNumber: nan marks NaN. Strings of the model hold no blanks, signs or dots.
ToNumber(a) ==
    CASE a.t = "number" -> [nan |-> FALSE, v |-> a.n]
      [] a.t = "boolean" -> [nan |-> FALSE, v |-> a.n]
      [] a.t = "null" -> [nan |-> FALSE, v |-> 0]
      [] a.t = "string" ->
            IF IsDigits(a.s) THEN [nan |-> FALSE, v |-> DecimalValue(a.s)]
            ELSE [nan |-> TRUE, v |-> 0]
      [] OTHER -> [nan |-> TRUE, v |-> 0]

\* the comparison of two strings by code units
StringLess(x, y) ==
    LET m == IF Len(x) < Len(y) THEN Len(x) ELSE Len(y)
        diff == {k \in 1..m : x[k] # y[k]}
    IN  IF diff = {} THEN Len(x) < Len(y)
        ELSE x[SetMin(diff)] < y[SetMin(diff)]

\* the comparison of two numbers, either of which may be NaN
NumberLess(na, nb) ==
    IF na.nan \/ nb.nan THEN "undefined"
    ELSE IF na.v < nb.v THEN "true" ELSE "false"

\* the comparison of two primitives
PrimitiveLess(pa, pb) ==
    IF pa.t = "string" /\ pb.t = "string"
    THEN (IF StringLess(pa.s, pb.s) THEN "true" ELSE "false")
    ELSE NumberLess(ToNumber(pa), ToNumber(pb))

\* Abstract Relational Comparison a < b: "true", "false" or "undefined"
Relational(a, b) == PrimitiveLess(ToPrimitive(a), ToPrimitive(b))

\* a < b, a > b, a >= b
JsLt(a, b) == Relational(a, b) = "true"
JsGt(a, b) == Relational(b, a) = "true"
JsGe(a, b) == Relational(a, b) = "false"

(* ------------------------------------------------------------------ *)
(* The node graph                                                      *)
(* ------------------------------------------------------------------ *)

NodeIds == 1..MaxNodes

\* null
NullNode == 0

\* a parent reference to a node that is no longer part of the tree
Detached == -1

FreeNode ==
    [used |-> FALSE, key |-> Undefined, value |-> UndefinedValue,
     left |-> NullNode, right |-> NullNode, parent |-> NullNode]

EmptyHeap == [i \in NodeIds |-> FreeNode]

\* the object literal { key, value, parent: null, left: null, right: null }
NewNode(key, value) ==
    [used |-> TRUE, key |-> key, value |-> value,
     left |-> NullNode, right |-> NullNode, parent |-> NullNode]

FreeIds(h) == {i \in DOMAIN h : ~h[i].used}

RECURSIVE Reach(_, _)
Reach(h, node) ==
    IF node = NullNode THEN {}
    ELSE {node} \cup Reach(h, h[node].left) \cup Reach(h, h[node].right)

\* Nodes the root no longer reaches are garbage: their ids are free again, and a
\* parent reference that still names one of them is Detached.
Collect(h, root) ==
    LET live == Reach(h, root)
    IN  [i \in DOMAIN h |->
            IF i \in live
            THEN [h[i] EXCEPT !.parent =
                    IF h[i].parent \in live \/ h[i].parent = NullNode
                    THEN h[i].parent ELSE Detached]
            ELSE FreeNode]

(* ------------------------------------------------------------------ *)
(* The private methods of BTree                                        *)
(* ------------------------------------------------------------------ *)

\* !value
Falsy(v) ==
    CASE v.t = "number" -> v.n = 0
      [] v.t = "string" -> v.s = <<>>
      [] v.t = "boolean" -> v.n = 0
      [] v.t \in {"undefined", "null", "absent"} -> TRUE
      [] OTHER -> FALSE

\* A private method that returns a node answers [h, n]: the heap afterwards
\* and the node returned.

\* node.left = r.n; node.left.parent = node; return node
LinkLeft(r, node) ==
    [h |-> [r.h EXCEPT ![node].left = r.n, ![r.n].parent = node], n |-> node]

\* node.right = r.n; node.right.parent = node; return node
LinkRight(r, node) ==
    [h |-> [r.h EXCEPT ![node].right = r.n, ![r.n].parent = node], n |-> node]

\* return { key, value, parent: null, left: null, right: null }, at address id
Allocate(h, id, key, value) ==
    [h |-> [h EXCEPT ![id] = NewNode(key, value)], n |-> id]

RECURSIVE _addItem(_, _, _, _)

\* _addItem with the two sides exchanged: a smaller key goes right, the others
\* go left. C1 does not hold of it.
_addItemSidesExchanged(h, node, key, value) ==
    IF node = NullNode THEN Allocate(h, SetMin(FreeIds(h)), key, value)
    ELSE IF JsLt(key, h[node].key)
    THEN LinkRight(_addItem(h, h[node].right, key, value), node)
    ELSE IF JsGe(key, h[node].key)
    THEN LinkLeft(_addItem(h, h[node].left, key, value), node)
    ELSE [h |-> h, n |-> node]

\* _addItem as it would be if a key equal to node.key went left. C20 does not
\* hold of it.
_addItemTiesLeft(h, node, key, value) ==
    IF node = NullNode THEN Allocate(h, SetMin(FreeIds(h)), key, value)
    ELSE IF JsGt(key, h[node].key)
    THEN LinkRight(_addItem(h, h[node].right, key, value), node)
    ELSE IF ~JsGt(key, h[node].key)
    THEN LinkLeft(_addItem(h, h[node].left, key, value), node)
    ELSE [h |-> h, n |-> node]

\* _addItem(node, key, value)
_addItem(h, node, key, value) ==
    IF node = NullNode THEN Allocate(h, SetMin(FreeIds(h)), key, value)
    ELSE IF JsLt(key, h[node].key)
    THEN LinkLeft(_addItem(h, h[node].left, key, value), node)
    ELSE IF JsGe(key, h[node].key)
    THEN LinkRight(_addItem(h, h[node].right, key, value), node)
    ELSE [h |-> h, n |-> node]

\* _minimum(node), _maximum(node): node is not null
RECURSIVE _minimum(_, _)
_minimum(h, node) ==
    IF h[node].left # NullNode THEN _minimum(h, h[node].left) ELSE node

RECURSIVE _maximum(_, _)
_maximum(h, node) ==
    IF h[node].right # NullNode THEN _maximum(h, h[node].right) ELSE node

\* node.left = r.n; return node
SetLeft(r, node) == [h |-> [r.h EXCEPT ![node].left = r.n], n |-> node]

\* node.right = r.n; return node
SetRight(r, node) == [h |-> [r.h EXCEPT ![node].right = r.n], n |-> node]

\* node.key = successor.key; node.value = successor.value
CopySuccessor(h, node, successor) ==
    [h EXCEPT ![node].key = h[successor].key, ![node].value = h[successor].value]

\* _remove(node, key)
RECURSIVE _remove(_, _, _)
RECURSIVE RemoveSuccessor(_, _, _)

_remove(h, node, key) ==
    IF node = NullNode THEN [h |-> h, n |-> NullNode]
    ELSE IF JsLt(key, h[node].key)
    THEN SetLeft(_remove(h, h[node].left, key), node)
    ELSE IF JsGt(key, h[node].key)
    THEN SetRight(_remove(h, h[node].right, key), node)
    ELSE IF h[node].left = NullNode THEN [h |-> h, n |-> h[node].right]
    ELSE IF h[node].right = NullNode THEN [h |-> h, n |-> h[node].left]
    ELSE RemoveSuccessor(h, node, _minimum(h, h[node].right))

\* the two-children case of _remove, successor the minimum of node.right
RemoveSuccessor(h, node, successor) ==
    SetRight(_remove(CopySuccessor(h, node, successor), h[node].right, h[successor].key),
             node)

\* _traverse(node, callback): the values handed to the callback, in order
RECURSIVE _traverse(_, _)
_traverse(h, node) ==
    IF node = NullNode THEN <<>>
    ELSE _traverse(h, h[node].left) \o <<h[node].value>> \o _traverse(h, h[node].right)

\* _getByKey(key, node): the node found, NullNode for null and for undefined
RECURSIVE _getByKey(_, _, _)
_getByKey(h, key, node) ==
    IF node = NullNode THEN NullNode
    ELSE IF StrictEq(key, h[node].key) THEN node
    ELSE IF JsLt(key, h[node].key) THEN _getByKey(h, key, h[node].left)
    ELSE IF JsGt(key, h[node].key) THEN _getByKey(h, key, h[node].right)
    ELSE NullNode

\* _getByProperty(name, value, node)
_getByProperty(h, name, value, node) ==
    IF node = NullNode THEN <<>>
    ELSE SelectSeq(_traverse(h, node), LAMBDA nodeValue : StrictEq(GetProp(nodeValue, name), value))

\* _isBST(node, minKey, maxKey)
RECURSIVE _isBST(_, _, _, _)
_isBST(h, node, minKey, maxKey) ==
    IF node = NullNode \/ (h[node].left = NullNode /\ h[node].right = NullNode) THEN TRUE
    ELSE IF JsLt(h[node].key, minKey) \/ JsGt(h[node].key, maxKey) THEN FALSE
    ELSE _isBST(h, h[node].left, minKey, h[node].key)
         /\ _isBST(h, h[node].right, h[node].key, maxKey)

(* ------------------------------------------------------------------ *)
(* The public methods of BTree, as functions of the tree                *)
(* ------------------------------------------------------------------ *)

\* A tree t is [nodes, root, options]. A call answers [t, err, idx]: the tree
\* afterwards, the message of the error thrown ("" when the call returns) and
\* the index the message names (-1 when it names none).
Ok(t) == [t |-> t, err |-> "", idx |-> -1]
Err(t, msg) == [t |-> t, err |-> msg, idx |-> -1]
ErrAt(t, msg, i) == [t |-> t, err |-> msg, idx |-> i]

\* this.root = r.n
SetRoot(t, r) == [t EXCEPT !.nodes = r.h, !.root = r.n]

\* this.root = this._addItem(this.root, key, value)
AddAt(t, key, value) == SetRoot(t, _addItem(t.nodes, t.root, key, value))

\* items()
items(t) == _traverse(t.nodes, t.root)

\* size()
size(t) == Len(items(t))

\* isEmpty()
isEmpty(t) == t.root = NullNode

\* minimum(), maximum(): err and the value returned
\* minimum() as it would be if it answered the value at the root. C17 does not
\* hold of it.
minimumAtRoot(t) ==
    IF t.root = NullNode
    THEN [err |-> "Cannot find minimum in empty tree", val |-> UndefinedValue]
    ELSE [err |-> "", val |-> t.nodes[t.root].value]

minimum(t) ==
    IF t.root = NullNode
    THEN [err |-> "Cannot find minimum in empty tree", val |-> UndefinedValue]
    ELSE [err |-> "", val |-> t.nodes[_minimum(t.nodes, t.root)].value]

maximum(t) ==
    IF t.root = NullNode
    THEN [err |-> "Cannot find maximum in empty tree", val |-> UndefinedValue]
    ELSE [err |-> "", val |-> t.nodes[_maximum(t.nodes, t.root)].value]

\* getMinimumNode(), getMaximumNode(): err and the node returned
getMinimumNode(t) ==
    IF t.root = NullNode
    THEN [err |-> "Cannot find minimum in empty tree", node |-> NullNode]
    ELSE [err |-> "", node |-> _minimum(t.nodes, t.root)]

getMaximumNode(t) ==
    IF t.root = NullNode
    THEN [err |-> "Cannot find maximum in empty tree", node |-> NullNode]
    ELSE [err |-> "", node |-> _maximum(t.nodes, t.root)]

\* this._isBST(this.root, mn, mx), mn and mx what minimum() and maximum() answered
IsBSTBetween(t, mn, mx) ==
    IF mn.err # "" THEN [err |-> mn.err, val |-> FALSE]
    ELSE IF mx.err # "" THEN [err |-> mx.err, val |-> FALSE]
    ELSE [err |-> "", val |-> _isBST(t.nodes, t.root, mn.val, mx.val)]

\* isBalanced(): err and the boolean returned
isBalanced(t) == IsBSTBetween(t, minimum(t), maximum(t))

\* a split that takes the last item as the median: the rebuilt tree is a chain.
\* C12 does not hold of it.
CeilHalfLast(n) == n

\* Math.ceil(n / 2)
CeilHalf(n) == (n + 1) \div 2

\* add(value, key) as it would be if a boolean or a function were stored under
\* itself like a string, a number or a date. C14 does not hold of it.
addOneUnvalidated(t, value, key) ==
    IF value.t \in {"undefined", "null"}
    THEN Err(t, "Value cannot be undefined or null")
    ELSE IF key.t # "undefined"
    THEN (IF getType(key) # "string" /\ getType(key) # "number"
          THEN Err(t, "Key must be a string or number")
          ELSE Ok(AddAt(t, key, value)))
    ELSE CASE getType(value) \in {"string", "number", "date", "boolean", "function"} ->
                Ok(AddAt(t, PrimOf(value), value))
           [] getType(value) = "object" ->
                IF ~hasOwnProperty(value, PropName(t.options.key))
                THEN Err(t, "Object must have property")
                ELSE IF GetProp(value, PropName(t.options.key)).t \in {"undefined", "null"}
                THEN Err(t, "Object property cannot be undefined or null")
                ELSE Ok(AddAt(t, GetProp(value, PropName(t.options.key)), value))
           [] OTHER -> Err(t, "Unsupported value type")

\* add(value, key) for a value that does not take the array branch: the input
\* checks, the explicit key and the scalar and object branches of the switch.
\* The trees of the model hold no arrays (no array is added under an explicit
\* key), so this is the add() that _balanceTree calls on a stored item.
addOne(t, value, key) ==
    IF value.t \in {"undefined", "null"}
    THEN Err(t, "Value cannot be undefined or null")
    ELSE IF key.t # "undefined"
    THEN (IF getType(key) # "string" /\ getType(key) # "number"
          THEN Err(t, "Key must be a string or number")
          ELSE Ok(AddAt(t, key, value)))
    ELSE CASE getType(value) \in {"string", "number", "date"} ->
                Ok(AddAt(t, PrimOf(value), value))
           [] getType(value) = "object" ->
                IF ~hasOwnProperty(value, PropName(t.options.key))
                THEN Err(t, "Object must have property")
                ELSE IF GetProp(value, PropName(t.options.key)).t \in {"undefined", "null"}
                THEN Err(t, "Object property cannot be undefined or null")
                ELSE Ok(AddAt(t, GetProp(value, PropName(t.options.key)), value))
           [] OTHER -> Err(t, "Unsupported value type")

\* _balanceTree(items) answers [t, err, ret], ret the node returned
Returned(r) == [t |-> r.t, err |-> r.err, ret |-> r.t.root]

RECURSIVE _balanceTree(_, _)
RECURSIVE BalanceLeft(_, _, _)
RECURSIVE BalanceRight(_, _)

_balanceTree(t, its) ==
    IF Len(its) = 0 THEN [t |-> t, err |-> "", ret |-> NullNode]
    ELSE IF Len(its) = 1 THEN Returned(addOne(t, its[1], Undefined))
    ELSE IF Falsy(its[CeilHalf(Len(its))]) THEN [t |-> t, err |-> "", ret |-> NullNode]
    ELSE BalanceLeft(addOne(t, its[CeilHalf(Len(its))], Undefined),
                     SubSeq(its, 1, CeilHalf(Len(its)) - 1),
                     SubSeq(its, CeilHalf(Len(its)) + 1, Len(its)))

\* _balanceTree after this.add(mid) answered r1: this._balanceTree(left)
BalanceLeft(r1, left, right) ==
    IF r1.err # "" THEN [t |-> r1.t, err |-> r1.err, ret |-> NullNode]
    ELSE BalanceRight(_balanceTree(r1.t, left), right)

\* _balanceTree after this._balanceTree(left) answered r2:
\* if (right && right.length > 0) this._balanceTree(right); return this.root
BalanceRight(r2, right) ==
    IF r2.err # "" THEN r2
    ELSE IF Len(right) > 0 THEN Returned(_balanceTree(r2.t, right))
    ELSE Returned(r2)

\* this.root = null
Emptied(t) == [t EXCEPT !.root = NullNode, !.nodes = Collect(t.nodes, NullNode)]

\* this.root = r.ret, r what _balanceTree answered
Rebuilt(r) ==
    IF r.err # "" THEN Err(r.t, r.err)
    ELSE Ok([r.t EXCEPT !.root = r.ret])

\* balance(), its what items() answered
BalanceItems(t, its) ==
    IF Len(its) = 0 THEN Ok(t)
    ELSE Rebuilt(_balanceTree(Emptied(t), its))

\* balance()
balance(t) ==
    IF t.root = NullNode THEN Ok(t)
    ELSE BalanceItems(t, items(t))

\* if (!this.isBalanced()) { this.balance(); }, b what isBalanced() answered
BalanceUnless(t, b) ==
    IF b.err # "" THEN Err(t, b.err)
    ELSE IF ~b.val THEN balance(t)
    ELSE Ok(t)

\* the end of init() and of the array branch of add(), r what the loop answered
BalanceIfNeeded(r) ==
    IF r.err # "" THEN r
    ELSE BalanceUnless(r.t, isBalanced(r.t))

\* the loop of the array branch of add(), from the element at index i - 1 on
RECURSIVE AddArrayLoop(_, _, _)
AddArrayLoop(t, arr, i) ==
    IF i > Len(arr) THEN Ok(t)
    ELSE IF arr[i].t \in {"undefined", "null"}
    THEN Err(t, "TypeError")
    ELSE IF ~hasOwnProperty(arr[i], PropName(t.options.key))
    THEN ErrAt(t, "Array item must have property", i - 1)
    ELSE IF GetProp(arr[i], PropName(t.options.key)).t \in {"undefined", "null"}
    THEN ErrAt(t, "Array item property cannot be undefined or null", i - 1)
    ELSE AddArrayLoop(AddAt(t, GetProp(arr[i], PropName(t.options.key)), arr[i]), arr, i + 1)

\* add(value, key); arr holds the elements when value is an array
add(t, value, key, arr) ==
    IF key.t = "undefined" /\ getType(value) = "array"
    THEN BalanceIfNeeded(AddArrayLoop(t, arr, 1))
    ELSE addOne(t, value, key)

\* clear()
clear(t) == Ok([t EXCEPT !.root = NullNode])

\* the loop of find() and findAll() stopped after the first property of the
\* criteria. C9 does not hold of it.
PropertyLoopFirstOnly(t, crit, i, result) ==
    _getByProperty(t.nodes, crit[1][1], crit[1][2], t.root)

\* the loop `for (const prop in key)` of find() and findAll(), from the i-th
\* property of the criteria on; a property is <<name, value>>
RECURSIVE PropertyLoop(_, _, _, _)
PropertyLoop(t, crit, i, result) ==
    IF i > Len(crit) THEN result
    ELSE PropertyLoop(t, crit, i + 1,
                      _getByProperty(t.nodes, crit[i][1], crit[i][2], t.root))

\* if (item) { result.push(item.value); }
Pushed(t, item) == IF item # NullNode THEN <<t.nodes[item].value>> ELSE <<>>

\* the matches find() and findAll() collect: [err, res]; crit holds the
\* properties of key, in enumeration order, when key is an object
Matches(t, key, crit) ==
    IF key.t \in {"undefined", "null"}
    THEN [err |-> "Key cannot be undefined or null", res |-> <<>>]
    ELSE IF getType(key) = "object"
    THEN (IF ~(Len(crit) > 0)
          THEN [err |-> "Search object must have at least one property", res |-> <<>>]
          ELSE [err |-> "", res |-> PropertyLoop(t, crit, 1, <<>>)])
    ELSE [err |-> "", res |-> Pushed(t, _getByKey(t.nodes, key, t.root))]

\* find() that never unwraps a single match. C7 does not hold of it.
UnwrappedNever(m) == [err |-> m.err, single |-> FALSE, res |-> m.res]

\* return result.length === 1 ? result[0] : result
\* single says that res[1] itself is returned
Unwrapped(m) == [err |-> m.err, single |-> (m.err = "" /\ Len(m.res) = 1), res |-> m.res]

\* return result
Wrapped(m) == [err |-> m.err, single |-> FALSE, res |-> m.res]

\* find(key): [err, single, res]
find(t, key, crit) == Unwrapped(Matches(t, key, crit))

\* findAll(key): [err, single, res]
findAll(t, key, crit) == Wrapped(Matches(t, key, crit))

\* existing.length === 0, for what find() returned
LengthIsZero(existing) ==
    IF existing.single
    THEN StrictEq(GetProp(existing.res[1], "length"), PN(0))
    ELSE Len(existing.res) = 0

\* remove(key) without the test of existing.length. C6 does not hold of it.
RemoveExistingUntested(t, key, existing) ==
    IF existing.err # "" THEN Err(t, existing.err)
    ELSE Ok(SetRoot(t, _remove(t.nodes, t.root, key)))

\* remove(key) after this.find(key) answered existing
RemoveExisting(t, key, existing) ==
    IF existing.err # "" THEN Err(t, existing.err)
    ELSE IF LengthIsZero(existing) THEN Err(t, "Key not found in tree")
    ELSE Ok(SetRoot(t, _remove(t.nodes, t.root, key)))

\* remove(key)
remove(t, key, crit) ==
    IF key.t \in {"undefined", "null"}
    THEN Err(t, "Key cannot be undefined or null")
    ELSE IF t.root = NullNode
    THEN Err(t, "Cannot remove from empty tree")
    ELSE RemoveExisting(t, key, find(t, key, crit))

\* the loop of init() over values, from the element at index i - 1 on
RECURSIVE InitLoop(_, _, _)
RECURSIVE InitNext(_, _, _)

InitLoop(t, values, i) ==
    IF i > Len(values) THEN Ok(t)
    ELSE InitNext(addOne(t, values[i], Undefined), values, i)

\* try { this.root = this.add(values[i]); } catch ..., r what add() answered
InitNext(r, values, i) ==
    IF r.err # "" THEN ErrAt(r.t, "Failed to add item", i - 1)
    ELSE InitLoop(r.t, values, i + 1)

\* the options argument of init(), {} by default
OptionsArgument(options) ==
    IF options.t = "undefined" THEN [t |-> "object", n |-> 0, s |-> <<>>, key |-> Absent]
    ELSE options

\* options.key of the options argument
GetOptionsKey(opts) ==
    IF opts.t = "object" /\ opts.key.t # "absent" THEN opts.key ELSE Undefined

\* this.options = { ...this.options, ...options }
MergeOptions(t, opts) ==
    IF opts.t = "object" /\ opts.key.t # "absent"
    THEN [t EXCEPT !.options = [key |-> opts.key]]
    ELSE t

\* the part of init() that validates and adds the values
InitValues(t, values) ==
    IF values.t \in {"undefined", "null"} THEN Ok(t)
    ELSE IF values.t # "array" THEN Err(t, "Values must be an array")
    ELSE IF Len(values.a) = 0 THEN Ok([t EXCEPT !.root = NullNode])
    ELSE BalanceIfNeeded(InitLoop(t, values.a, 1))

\* the part of init() that validates and merges the options
InitOptions(t, values, opts) ==
    IF ~Falsy(opts) /\ opts.t # "object"
    THEN Err(t, "Options must be an object")
    ELSE IF opts.t = "null"
    THEN Err(t, "TypeError")
    ELSE IF ~Falsy(GetOptionsKey(opts)) /\ GetOptionsKey(opts).t # "string"
    THEN Err(t, "Key option must be a string")
    ELSE InitValues(MergeOptions(t, opts), values)

\* init(values, options): values is [t, a], a the elements when it is an array;
\* options is [t, n, s, key], key Absent when the object owns no key
init(t, values, options) == InitOptions(t, values, OptionsArgument(options))

(* ------------------------------------------------------------------ *)
(* The inputs of the model                                             *)
(* ------------------------------------------------------------------ *)

StrEmpty == <<>>
StrA == <<97>>
StrB == <<98>>
StrC == <<99>>
Str3 == <<51>>
Str10 == <<49, 48>>

\* Every behaviour draws its inputs from one family ("keys", the numbers
\* 1 .. MaxKeys each added at most once, is the family of SpecKeys):
\*   "num"    numbers, as values that are their own keys
\*   "str"    strings, as values that are their own keys
\*   "mixed"  numbers and strings in one tree
\*   "obj"    objects { id, name }, keyed by options.key
\*   "expl"   string values added under explicit number keys
\*   "bad"    arguments that the validation of add() and init() is about
Families == {"num", "str", "mixed", "obj", "expl", "bad"}

\* { name: 'b' }, { id: null, name: 'a' } and { id: true, name: 'a' }
ObjNoId == Value("object", 0, <<>>, [id |-> Absent, name |-> PS(StrB), length |-> Absent])
ObjNullId == Obj(Null, PS(StrA))
ObjBoolId == Obj(Prim("boolean", 1, <<>>), PS(StrA))

\* null, true and function() {} as values
NullValue == Value("null", 0, <<>>, NoProps)
BoolValue == Value("boolean", 1, <<>>, NoProps)
FuncValue == Value("function", 0, <<>>, NoProps)

Values(d) ==
    CASE d = "num" -> {Num(-1), Num(0), Num(1)}
      [] d = "str" -> {Str(StrEmpty), Str(StrA), Str(StrB)}
      [] d = "mixed" -> {Num(5), Str(Str10), Str(Str3), Str(StrA)}
      [] d = "obj" -> {Obj(PN(1), PS(StrA)), Obj(PN(1), PS(StrB)),
                       Obj(PN(1), PS(StrC)), Obj(PN(2), PS(StrA))}
      [] d = "expl" -> {Str(StrB), Str(StrA)}
      [] d = "keys" -> {Num(i) : i \in 1..MaxKeys}
      [] d = "bad" -> {Obj(PN(1), PS(StrA)), ObjNoId, ObjNullId, ObjBoolId,
                       NullValue, UndefinedValue, BoolValue, FuncValue}

\* the explicit keys handed to add(value, key); Undefined is "no key given"
ExplicitKeys(d) ==
    CASE d = "expl" -> {PN(1), PN(2)}
      [] d = "bad" -> {Undefined, Null, Prim("object", 0, <<>>)}
      [] OTHER -> {Undefined}

\* the scalar keys handed to remove(), find() and findAll()
SearchKeys(d) ==
    CASE d = "obj" -> {PN(1), PN(2), PS(StrA), PS(StrB)}
      [] d = "expl" -> {PN(1), PN(2), PS(StrA), PS(StrB)}
      [] d = "bad" -> {PN(1), Prim("boolean", 1, <<>>)}
      [] OTHER -> {PrimOf(v) : v \in Values(d)}

\* the criteria objects handed to find() and findAll(), each the sequence of
\* its properties <<name, value>> in enumeration order
Criteria(d) ==
    CASE d = "obj" -> {<<>>,
                       << <<"id", PN(1)>> >>,
                       << <<"name", PS(StrA)>> >>,
                       << <<"id", PN(1)>>, <<"name", PS(StrA)>> >>,
                       << <<"name", PS(StrB)>>, <<"id", PN(2)>> >>}
      [] d = "str" -> {<< <<"length", PN(0)>> >>}
      [] OTHER -> {<< <<"id", PN(1)>> >>}

\* a criteria object as the key argument
CriteriaKey == Prim("object", 0, <<>>)

\* the arguments handed to find() and findAll(): a scalar key, or a criteria
\* object with its properties
Queries(d) ==
    {[key |-> k, crit |-> <<>>] : k \in SearchKeys(d)}
    \cup {[key |-> CriteriaKey, crit |-> c] : c \in Criteria(d)}

\* the options handed to init(): [t, n, s, key]
Options(t, n, s, key) == [t |-> t, n |-> n, s |-> s, key |-> key]
NoOptions == Options("undefined", 0, <<>>, Absent)

\* the key fields handed to the constructor: new BTree() and, for trees of
\* objects, new BTree({ key: 'name' })
ConstructorKeys(d) ==
    IF d = "obj" THEN {PS(StrId), PS(StrName)} ELSE {PS(StrId)}

\* for "bad": no options, { key: 123 }, { key: null } and 'i'
OptionsIn(d) ==
    CASE d = "obj" -> {NoOptions, Options("object", 0, <<>>, PS(StrId)),
                       Options("object", 0, <<>>, PS(StrName))}
      [] d = "bad" -> {NoOptions, Options("object", 0, <<>>, PN(123)),
                       Options("object", 0, <<>>, Null),
                       Options("string", 0, <<105>>, Absent)}
      [] OTHER -> {NoOptions}

\* the sequences of at most n elements of S
SeqUpTo(S, n) == UNION {[1..k -> S] : k \in 0..n}

\* the elements of the arrays handed to init(values) and add(values)
BulkValues(d) ==
    CASE d = "num" -> {Num(0), Num(1)}
      [] d = "str" -> {Str(StrA), Str(StrB)}
      [] d = "mixed" -> {Num(5), Str(StrA)}
      [] d = "obj" -> {Obj(PN(1), PS(StrA)), Obj(PN(1), PS(StrB))}
      [] d = "expl" -> {Str(StrB), Str(StrA)}
      [] d = "bad" -> {Obj(PN(1), PS(StrA)), ObjNoId, NullValue}

\* the arrays handed to init(values)
InitArrays(d) == SeqUpTo(BulkValues(d), MaxBulk)

\* the values argument of init(): [t, a], a the elements of an array; for "bad"
\* also null, undefined, a string, a number and a plain object
InitValuesIn(d) ==
    {[t |-> "array", a |-> arr] : arr \in InitArrays(d)}
    \cup (IF d = "bad"
          THEN {[t |-> x, a |-> <<>>] :
                    x \in {"null", "undefined", "string", "number", "object"}}
          ELSE {})

\* the arrays handed to add(values)
AddArrays(d) ==
    IF d \in {"obj", "bad"} THEN SeqUpTo(BulkValues(d), MaxBulk)
    ELSE SeqUpTo({CHOOSE v \in BulkValues(d) : TRUE}, 1)

ArrayValue == Value("array", 0, <<>>, NoProps)

(* ------------------------------------------------------------------ *)
(* The state                                                           *)
(* ------------------------------------------------------------------ *)

VARIABLES
    nodes,      \* the node objects, by address
    root,       \* this.root
    options,    \* this.options
    last,       \* the last call: its name and the error it threw
    answer,     \* what the last call returned, when it was a query
    dom,        \* the family the inputs are drawn from
    pure,       \* only add(value) and remove(key) have been called so far
    nAdd,       \* while pure: the add calls that returned
    nRemove,    \* while pure: the remove calls that returned
    everMixed,  \* the tree has held keys of two kinds at some point
    legacy      \* a tree of lib/btree.js driven by the same calls, where it is
                \* followed: the tree, the error of its last call, what
                \* its last find() returned

vars == <<nodes, root, options, last, answer, dom, pure, nAdd, nRemove, everMixed,
          legacy>>

Tree == [nodes |-> nodes, root |-> root, options |-> options]

\* the nodes of the tree, root first, left subtree before right subtree
RECURSIVE Preorder(_, _)
Preorder(h, node) ==
    IF node = NullNode THEN <<>>
    ELSE <<node>> \o Preorder(h, h[node].left) \o Preorder(h, h[node].right)

\* where the node at address old is found in order
IndexIn(order, old) ==
    IF old = NullNode THEN NullNode
    ELSE IF \E i \in 1..Len(order) : order[i] = old
    THEN CHOOSE i \in 1..Len(order) : order[i] = old
    ELSE Detached

Renamed(t, order) ==
    [t EXCEPT
       !.root = IndexIn(order, t.root),
       !.nodes = [i \in DOMAIN t.nodes |->
                    IF i <= Len(order)
                    THEN [t.nodes[order[i]] EXCEPT
                            !.left = IndexIn(order, @),
                            !.right = IndexIn(order, @),
                            !.parent = IndexIn(order, @)]
                    ELSE FreeNode]]

\* Addresses are not observable: after a call the nodes are renamed in
\* preorder, the garbage is dropped, and a parent reference into the garbage
\* becomes Detached.
Normalize(t) == Renamed(t, Preorder(t.nodes, t.root))

\* the keys of the tree, in traversal order
RECURSIVE KeysOf(_, _)
KeysOf(h, node) ==
    IF node = NullNode THEN <<>>
    ELSE KeysOf(h, h[node].left) \o <<h[node].key>> \o KeysOf(h, h[node].right)

Keys(t) == KeysOf(t.nodes, t.root)

\* the tree holds keys of two kinds
Mixed(t) == \E i, j \in 1..Len(Keys(t)) : Keys(t)[i].t # Keys(t)[j].t

Call(op, err, idx) == [op |-> op, err |-> err, idx |-> idx]

\* what a query returned: q the argument asked, single and res what find() or
\* findAll() answered, val the boolean isBalanced() answered
Answer(q, single, res, val) == [q |-> q, single |-> single, res |-> res, val |-> val]
NoQuery == [key |-> Undefined, crit |-> <<>>]
NoAnswer == Answer(NoQuery, FALSE, <<>>, FALSE)

\* new btree() of lib/btree.js, on a heap of its own as large as h
LegacyNew(h) ==
    [t |-> [nodes |-> [i \in DOMAIN h |-> FreeNode], root |-> NullNode,
            options |-> [key |-> PS(StrId)]],
     err |-> "", undef |-> FALSE, res |-> <<>>]

Init ==
    /\ dom \in Families
    /\ nodes = EmptyHeap
    /\ root = NullNode
    /\ options \in {[key |-> k] : k \in ConstructorKeys(dom)}
    /\ last = Call("new", "", -1)
    /\ answer = NoAnswer
    /\ pure = TRUE
    /\ nAdd = 0
    /\ nRemove = 0
    /\ everMixed = FALSE
    /\ legacy = LegacyNew(nodes)

\* the tree becomes t
Becomes(t) ==
    /\ nodes' = t.nodes
    /\ root' = t.root
    /\ options' = t.options
    /\ everMixed' = (everMixed \/ Mixed(t))
    /\ dom' = dom

\* a call other than add(value) and remove(key) ends the size accounting
Uncounted == pure' = FALSE /\ nAdd' = 0 /\ nRemove' = 0

\* add(value) or remove(key) answered r: while pure, count it if it returned
Counted(r, a, m) ==
    IF ~pure \/ (r.err = "" /\ nAdd + nRemove >= MaxCalls)
    THEN Uncounted
    ELSE /\ pure' = TRUE
         /\ nAdd' = IF r.err = "" THEN nAdd + a ELSE nAdd
         /\ nRemove' = IF r.err = "" THEN nRemove + m ELSE nRemove

\* the call op answered r
Answered(op, r) ==
    /\ Becomes(Normalize(r.t))
    /\ last' = Call(op, r.err, r.idx)
    /\ answer' = NoAnswer
    /\ UNCHANGED legacy

\* the query op, asked q, answered f: the tree is as it was
Queried(op, q, f) ==
    /\ last' = Call(op, f.err, -1)
    /\ answer' = Answer(q, f.single, f.res, FALSE)
    /\ Uncounted
    /\ UNCHANGED <<nodes, root, options, dom, everMixed, legacy>>

\* tree.add(value) and tree.add(value, key), value not an array
Add(v, k) ==
    /\ size(Tree) < Len(nodes)
    /\ Answered("add", add(Tree, v, k, <<>>))
    /\ Counted(add(Tree, v, k, <<>>), 1, 0)

\* tree.add(values), values an array
AddArray(arr) ==
    /\ size(Tree) + Len(arr) <= Len(nodes)
    /\ Answered("addArray", add(Tree, ArrayValue, Undefined, arr))
    /\ Uncounted

\* tree.init(values, options)
InitCall(values, opts) ==
    /\ size(Tree) + Len(values.a) <= Len(nodes)
    /\ Answered("init", init(Tree, values, opts))
    /\ Uncounted

\* tree.remove(key)
Remove(k) ==
    /\ Answered("remove", remove(Tree, k, <<>>))
    /\ Counted(remove(Tree, k, <<>>), 0, 1)

\* tree.balance()
Balance ==
    /\ Answered("balance", balance(Tree))
    /\ Uncounted

\* tree.clear()
Clear ==
    /\ Answered("clear", clear(Tree))
    /\ Uncounted

\* tree.find(key)
Find(q) == Queried("find", q, find(Tree, q.key, q.crit))

\* tree.findAll(key)
FindAll(q) == Queried("findAll", q, findAll(Tree, q.key, q.crit))

\* tree.isBalanced()
IsBalanced ==
    /\ last' = Call("isBalanced", isBalanced(Tree).err, -1)
    /\ answer' = Answer(NoQuery, FALSE, <<>>, isBalanced(Tree).val)
    /\ Uncounted
    /\ UNCHANGED <<nodes, root, options, dom, everMixed, legacy>>

Next ==
    \/ \E v \in Values(dom) : \E k \in ExplicitKeys(dom) : Add(v, k)
    \/ \E arr \in AddArrays(dom) : AddArray(arr)
    \/ \E values \in InitValuesIn(dom) : \E opts \in OptionsIn(dom) : InitCall(values, opts)
    \/ \E k \in SearchKeys(dom) : Remove(k)
    \/ Balance
    \/ Clear
    \/ \E q \in Queries(dom) : Find(q)
    \/ \E q \in Queries(dom) : FindAll(q)
    \/ IsBalanced

Spec == Init /\ [][Next]_vars

(* ------------------------------------------------------------------ *)
(* Trees of distinct keys                                              *)
(* ------------------------------------------------------------------ *)

\* new BTree(), to receive the keys 1 .. MaxKeys
InitKeys ==
    /\ dom = "keys"
    /\ nodes = [i \in 1..MaxKeys |-> FreeNode]
    /\ root = NullNode
    /\ options = [key |-> PS(StrId)]
    /\ last = Call("new", "", -1)
    /\ answer = NoAnswer
    /\ pure = TRUE
    /\ nAdd = 0
    /\ nRemove = 0
    /\ everMixed = FALSE
    /\ legacy = LegacyNew(nodes)

\* tree.add(value), value a key the tree does not hold
AddNew(v) ==
    /\ \A i \in 1..Len(Keys(Tree)) : Keys(Tree)[i] # PrimOf(v)
    /\ Add(v, Undefined)

NextKeys ==
    \/ \E v \in Values(dom) : AddNew(v)
    \/ \E k \in SearchKeys(dom) : Remove(k)
    \/ Balance

SpecKeys == InitKeys /\ [][NextKeys]_vars

(* ------------------------------------------------------------------ *)
(* The minimum and the maximum                                        *)
(* ------------------------------------------------------------------ *)

\* the query op answered r, [err, val]: the value returned is recorded in res
Extreme(op, r) ==
    /\ last' = Call(op, r.err, -1)
    /\ answer' = Answer(NoQuery, TRUE, IF r.err = "" THEN <<r.val>> ELSE <<>>, FALSE)
    /\ Uncounted
    /\ UNCHANGED <<nodes, root, options, dom, everMixed, legacy>>

\* the query op answered r, [err, node]: the key of the node returned is
\* recorded in q.key and its value in res
ExtremeNode(op, r) ==
    /\ last' = Call(op, r.err, -1)
    /\ answer' = IF r.err # "" THEN Answer(NoQuery, TRUE, <<>>, FALSE)
                 ELSE Answer([key |-> nodes[r.node].key, crit |-> <<>>], TRUE,
                             <<nodes[r.node].value>>, FALSE)
    /\ Uncounted
    /\ UNCHANGED <<nodes, root, options, dom, everMixed, legacy>>

\* tree.minimum(), tree.maximum(), tree.getMinimumNode(), tree.getMaximumNode()
Minimum == Extreme("minimum", minimum(Tree))
Maximum == Extreme("maximum", maximum(Tree))
GetMinimumNode == ExtremeNode("getMinimumNode", getMinimumNode(Tree))
GetMaximumNode == ExtremeNode("getMaximumNode", getMaximumNode(Tree))

NextExtremes ==
    \/ \E v \in Values(dom) : \E k \in ExplicitKeys(dom) : Add(v, k)
    \/ \E k \in SearchKeys(dom) : Remove(k)
    \/ Balance
    \/ Clear
    \/ Minimum
    \/ Maximum
    \/ GetMinimumNode
    \/ GetMaximumNode

SpecExtremes == Init /\ [][NextExtremes]_vars

(* ------------------------------------------------------------------ *)
(* The legacy tree of lib/btree.js                                    *)
(* ------------------------------------------------------------------ *)

\* addItem, remove, minimum, maximum, traverse, isBST and the branches of add()
\* for a value that is not an array are, statement for statement, _addItem,
\* _remove, _minimum, _maximum, _traverse, _isBST and add() of BTree, and
\* are modelled by the same operators. What differs is modelled below.

\* a == b on primitives
LooseEq(a, b) ==
    IF ToPrimitive(a).t = ToPrimitive(b).t THEN StrictEq(ToPrimitive(a), ToPrimitive(b))
    ELSE IF a.t \in {"undefined", "null"} \/ b.t \in {"undefined", "null"}
    THEN a.t \in {"undefined", "null"} /\ b.t \in {"undefined", "null"}
    ELSE /\ ~ToNumber(ToPrimitive(a)).nan
         /\ ~ToNumber(ToPrimitive(b)).nan
         /\ ToNumber(ToPrimitive(a)).v = ToNumber(ToPrimitive(b)).v

\* getByKey(key, node): the node found, NullNode for undefined
RECURSIVE getByKey(_, _, _)
getByKey(h, key, node) ==
    IF node = NullNode THEN NullNode
    ELSE IF LooseEq(key, h[node].key) THEN node
    ELSE IF JsLt(key, h[node].key) THEN getByKey(h, key, h[node].left)
    ELSE IF JsGt(key, h[node].key) THEN getByKey(h, key, h[node].right)
    ELSE NullNode

\* getByProperty(name, value, node): [undef, res], undef for undefined
getByProperty(h, name, value, node) ==
    IF node = NullNode THEN [undef |-> TRUE, res |-> <<>>]
    ELSE [undef |-> FALSE,
          res |-> SelectSeq(_traverse(h, node),
                            LAMBDA nodeValue : LooseEq(GetProp(nodeValue, name), value))]

\* the second loop `for (var prop in key)` of find(), from the i-th property
\* of the criteria on
RECURSIVE LegacyPropertyLoop(_, _, _, _)
LegacyPropertyLoop(t, crit, i, result) ==
    IF i > Len(crit) THEN result
    ELSE LegacyPropertyLoop(t, crit, i + 1,
                            getByProperty(t.nodes, crit[i][1], crit[i][2], t.root))

\* btree.prototype.find(key): [err, undef, res], always the array itself
btree_find(t, key, crit) ==
    IF key.t \in {"undefined", "null"}
    THEN [err |-> "Key cannot be undefined or null", undef |-> FALSE, res |-> <<>>]
    ELSE IF getType(key) = "object"
    THEN (IF Len(crit) = 0
          THEN [err |-> "Search object must have at least one property",
                undef |-> FALSE, res |-> <<>>]
          ELSE [err |-> ""] @@ LegacyPropertyLoop(t, crit, 1, [undef |-> FALSE, res |-> <<>>]))
    ELSE [err |-> "", undef |-> FALSE,
          res |-> Pushed(t, getByKey(t.nodes, key, t.root))]

\* what btree.prototype.minimum() and maximum() return: a node object
NodeObject == Prim("object", 0, <<>>)

\* btree.prototype.isBalanced(): err and the boolean returned
btree_isBalanced(t) ==
    IF t.root = NullNode
    THEN [err |-> "Cannot find minimum in empty tree", val |-> FALSE]
    ELSE [err |-> "", val |-> _isBST(t.nodes, t.root, NodeObject, NodeObject)]

\* balanceTree returned without a value
Unreturned(r) == [t |-> r.t, err |-> r.err, ret |-> NullNode]

\* balanceTree(tree, items) answers [t, err, ret], ret the node returned,
\* NullNode for undefined
RECURSIVE balanceTree(_, _)
RECURSIVE LegacyLeft(_, _, _)
RECURSIVE LegacyRight(_, _)

balanceTree(t, its) ==
    IF Len(its) = 0 THEN [t |-> t, err |-> "", ret |-> NullNode]
    ELSE IF Len(its) = 1 THEN Unreturned(addOne(t, its[1], Undefined))
    ELSE IF Falsy(its[CeilHalf(Len(its))]) THEN [t |-> t, err |-> "", ret |-> NullNode]
    ELSE LegacyLeft(addOne(t, its[CeilHalf(Len(its))], Undefined),
                    SubSeq(its, 1, CeilHalf(Len(its)) - 1),
                    SubSeq(its, CeilHalf(Len(its)) + 1, Len(its)))

\* balanceTree after tree.add(mid) answered r1: balanceTree(tree, left)
LegacyLeft(r1, left, right) ==
    IF r1.err # "" THEN Unreturned(r1)
    ELSE LegacyRight(balanceTree(r1.t, left), right)

\* balanceTree after balanceTree(tree, left) answered r2:
\* if (right && right.length > 0) balanceTree(tree, right); return tree.root
LegacyRight(r2, right) ==
    IF r2.err # "" THEN r2
    ELSE IF Len(right) > 0 THEN Returned(balanceTree(r2.t, right))
    ELSE Returned(r2)

\* btree.prototype.balance()
btree_balance(t) ==
    IF t.root = NullNode THEN Ok(t)
    ELSE IF Len(items(t)) = 0 THEN Ok(t)
    ELSE Rebuilt(balanceTree(Emptied(t), items(t)))

\* if (!this.isBalanced()) { this.balance(); }, b what isBalanced() answered
LegacyBalanceUnless(t, b) ==
    IF b.err # "" THEN Err(t, b.err)
    ELSE IF ~b.val THEN btree_balance(t)
    ELSE Ok(t)

\* the part of btree.prototype.init that validates and adds the values, r what
\* the loop over vals answered
LegacyInitValues(t, vals, r) ==
    IF vals.t \in {"undefined", "null"} THEN Ok(t)
    ELSE IF vals.t # "array" THEN Err(t, "Values must be an array")
    ELSE IF Len(vals.a) = 0 THEN Ok([t EXCEPT !.root = NullNode])
    ELSE IF r.err # "" THEN r
    ELSE LegacyBalanceUnless(r.t, btree_isBalanced(r.t))

\* btree.prototype.init(vals, opts)
btree_init(t, vals, opts) ==
    IF Falsy(opts)
    THEN LegacyInitValues(t, vals, InitLoop(t, vals.a, 1))
    ELSE IF opts.t # "object"
    THEN Err(t, "Options must be an object")
    ELSE IF ~Falsy(GetOptionsKey(opts)) /\ GetOptionsKey(opts).t # "string"
    THEN Err(t, "Key option must be a string")
    ELSE LegacyInitValues(MergeOptions(t, opts), vals,
                          InitLoop(MergeOptions(t, opts), vals.a, 1))

\* btree.prototype.remove(key) after this.find(key) answered existing
LegacyRemoveExisting(t, key, existing) ==
    IF existing.err # "" THEN Err(t, existing.err)
    ELSE IF existing.undef THEN Err(t, "TypeError")
    ELSE IF Len(existing.res) = 0 THEN Err(t, "Key not found in tree")
    ELSE Ok(SetRoot(t, _remove(t.nodes, t.root, key)))

\* btree.prototype.remove(key)
btree_remove(t, key, crit) ==
    IF key.t \in {"undefined", "null"}
    THEN Err(t, "Key cannot be undefined or null")
    ELSE IF t.root = NullNode
    THEN Err(t, "Cannot remove from empty tree")
    ELSE LegacyRemoveExisting(t, key, btree_find(t, key, crit))

\* the two trees have behaved alike so far: the same items(), the last call
\* failed on both or on neither, and the last find() reported the same matches
Alike ==
    /\ items(Tree) = items(legacy.t)
    /\ (last.err = "") = (legacy.err = "")
    /\ (last.op = "find" /\ last.err = "") => (~legacy.undef /\ answer.res = legacy.res)

\* the call op answered r on the BTree and l on the legacy tree; the pair is
\* followed up to the first call on which the two differ
BothAnswered(op, r, l) ==
    /\ Alike
    /\ Becomes(Normalize(r.t))
    /\ last' = Call(op, r.err, r.idx)
    /\ answer' = NoAnswer
    /\ Uncounted
    /\ legacy' = [t |-> Normalize(l.t), err |-> l.err, undef |-> FALSE, res |-> <<>>]

\* add(value) and add(value, key) on both trees, value not an array
BothAdd(v, k) ==
    /\ size(Tree) < Len(nodes)
    /\ size(legacy.t) < Len(nodes)
    /\ BothAnswered("add", add(Tree, v, k, <<>>), addOne(legacy.t, v, k))

\* init(values, options) on both trees
BothInit(values, opts) ==
    /\ size(Tree) + Len(values.a) <= Len(nodes)
    /\ size(legacy.t) + Len(values.a) <= Len(nodes)
    /\ BothAnswered("init", init(Tree, values, opts), btree_init(legacy.t, values, opts))

\* remove(key) on both trees
BothRemove(k) ==
    BothAnswered("remove", remove(Tree, k, <<>>), btree_remove(legacy.t, k, <<>>))

\* balance() on both trees
BothBalance == BothAnswered("balance", balance(Tree), btree_balance(legacy.t))

\* find(key) on both trees, f and l what they answered
BothFound(q, f, l) ==
    /\ Alike
    /\ last' = Call("find", f.err, -1)
    /\ answer' = Answer(q, f.single, f.res, FALSE)
    /\ Uncounted
    /\ legacy' = [legacy EXCEPT !.err = l.err, !.undef = l.undef, !.res = l.res]
    /\ UNCHANGED <<nodes, root, options, dom, everMixed>>

BothFind(q) == BothFound(q, find(Tree, q.key, q.crit), btree_find(legacy.t, q.key, q.crit))

\* both trees are made with no argument
InitLegacy == Init /\ options = [key |-> PS(StrId)]

NextLegacy ==
    \/ \E v \in Values(dom) : \E k \in ExplicitKeys(dom) : BothAdd(v, k)
    \/ \E values \in InitValuesIn(dom) : \E opts \in OptionsIn(dom) : BothInit(values, opts)
    \/ \E k \in SearchKeys(dom) : BothRemove(k)
    \/ BothBalance
    \/ \E q \in Queries(dom) : BothFind(q)

SpecLegacy == InitLegacy /\ [][NextLegacy]_vars

(* ------------------------------------------------------------------ *)
(* Trees built by hand                                                *)
(* ------------------------------------------------------------------ *)

\* The nodes are plain objects that add() and getMinimumNode() hand out, so a
\* caller can link them into any shape. A shape of n nodes gives each node
\* <<left, right>>; the nodes are numbered root first, left subtree before
\* right subtree.
Shapes(n) ==
    {s \in [1..n -> (0..n) \X (0..n)] :
        /\ \A i \in 1..n : s[i][1] \in {0, i + 1} /\ s[i][2] \in {0} \cup ((i + 1)..n)
        /\ \A i \in 1..n : s[i][1] = 0 \/ s[i][1] # s[i][2]
        /\ \A j \in 2..n :
              Cardinality({<<i, c>> \in (1..n) \X {1, 2} : s[i][c] = j}) = 1}

\* the parent of node j in the shape s, null for the root
ParentIn(s, n, j) ==
    IF j = 1 THEN NullNode
    ELSE CHOOSE i \in 1..n : s[i][1] = j \/ s[i][2] = j

\* the heap that holds the shape s of n nodes, vs the values of the nodes,
\* each stored as its own key
Built(s, n, vs) ==
    [i \in NodeIds |->
        IF i > n THEN FreeNode
        ELSE [used |-> TRUE, key |-> PrimOf(vs[i]), value |-> vs[i],
              left |-> s[i][1], right |-> s[i][2], parent |-> ParentIn(s, n, i)]]

\* the trees of numbers built by hand
HandBuilt ==
    UNION {{Built(s, n, vs) : s \in Shapes(n), vs \in [1..n -> Values("num")]} :
              n \in 1..MaxNodes}

InitShapes ==
    /\ dom = "num"
    /\ nodes \in {h \in HandBuilt :
                     Normalize([nodes |-> h, root |-> 1,
                                options |-> [key |-> PS(StrId)]]).nodes = h}
    /\ root = 1
    /\ options = [key |-> PS(StrId)]
    /\ last = Call("new", "", -1)
    /\ answer = NoAnswer
    /\ pure = FALSE
    /\ nAdd = 0
    /\ nRemove = 0
    /\ everMixed = FALSE
    /\ legacy = LegacyNew(nodes)

NextShapes == IsBalanced

SpecShapes == InitShapes /\ [][NextShapes]_vars

(* ------------------------------------------------------------------ *)
(* The variant that deletes through parent pointers                    *)
(* ------------------------------------------------------------------ *)

\* In SpecParent the variables nodes, root and options hold a btree of the
\* variant; its nodes carry the same fields as those of BTree.

\* addItem(node, key, value)
RECURSIVE parent_addItem(_, _, _, _)
parent_addItem(h, node, key, value) ==
    IF node = NullNode THEN Allocate(h, SetMin(FreeIds(h)), key, value)
    ELSE IF JsLt(key, h[node].key)
    THEN LinkLeft(parent_addItem(h, h[node].left, key, value), node)
    ELSE IF JsGe(key, h[node].key)
    THEN LinkRight(parent_addItem(h, h[node].right, key, value), node)
    ELSE [h |-> h, n |-> node]

\* btree.prototype.add(value), no key given
parent_add(t, value) ==
    CASE getType(value) \in {"string", "number", "date"} ->
            Ok(SetRoot(t, parent_addItem(t.nodes, t.root, PrimOf(value), value)))
      [] getType(value) = "object" ->
            Ok(SetRoot(t, parent_addItem(t.nodes, t.root,
                                         GetProp(value, PropName(t.options.key)), value)))
      [] OTHER -> Ok(t)

\* the first part of replaceInParent(node, newValue): node.parent is not null
ReplacedChild(h, node, newValue) ==
    IF h[h[node].parent].left # NullNode
       /\ LooseEq(h[node].key, h[h[h[node].parent].left].key)
    THEN [h EXCEPT ![h[node].parent].left = newValue]
    ELSE IF h[h[node].parent].right # NullNode
    THEN [h EXCEPT ![h[node].parent].right = newValue]
    ELSE h

\* the second part: if (newValue) newValue.parent = node.parent
Reparented(h, node, newValue) ==
    IF newValue # NullNode THEN [h EXCEPT ![newValue].parent = h[node].parent] ELSE h

\* replaceInParent(node, newValue): the heap afterwards
replaceInParent(h, node, newValue) ==
    IF h[node].parent # NullNode
    THEN Reparented(ReplacedChild(h, node, newValue), node, newValue)
    ELSE Reparented(h, node, newValue)

\* if (!node.parent) { node.key = successor.key; node.value = successor.value }
CopiedAtRoot(h, node, successor) ==
    IF h[node].parent = NullNode THEN CopySuccessor(h, node, successor) ELSE h

\* remove(node, key): the heap afterwards; it returns nothing
RECURSIVE parent_remove(_, _, _)
RECURSIVE SplicedSuccessor(_, _)

parent_remove(h, node, key) ==
    IF node = NullNode THEN h
    ELSE IF JsLt(key, h[node].key) THEN parent_remove(h, h[node].left, key)
    ELSE IF JsGt(key, h[node].key) THEN parent_remove(h, h[node].right, key)
    ELSE IF h[node].left # NullNode /\ h[node].right # NullNode
    THEN SplicedSuccessor(CopiedAtRoot(h, node, _minimum(h, h[node].right)),
                          _minimum(h, h[node].right))
    ELSE IF h[node].left # NullNode THEN replaceInParent(h, node, h[node].left)
    ELSE IF h[node].right # NullNode THEN replaceInParent(h, node, h[node].right)
    ELSE replaceInParent(h, node, NullNode)

\* remove(successor, successor.key)
SplicedSuccessor(h, successor) == parent_remove(h, successor, h[successor].key)

\* btree.prototype.remove(key): this.root is not assigned
btree_prototype_remove(t, key) ==
    Ok([t EXCEPT !.nodes = parent_remove(t.nodes, t.root, key)])

\* btree.prototype.items()
parent_items(t) == _traverse(t.nodes, t.root)

InitParent ==
    /\ dom = "num"
    /\ nodes = [i \in 1..MaxParentNodes |-> FreeNode]
    /\ root = NullNode
    /\ options = [key |-> PS(StrId)]
    /\ last = Call("new", "", -1)
    /\ answer = NoAnswer
    /\ pure = FALSE
    /\ nAdd = 0
    /\ nRemove = 0
    /\ everMixed = FALSE
    /\ legacy = LegacyNew(nodes)

\* tree.add(value) of the variant
ParentAdd(v) ==
    /\ Len(parent_items(Tree)) < Len(nodes)
    /\ Answered("add", parent_add(Tree, v))
    /\ Uncounted

\* tree.remove(key) of the variant
ParentRemove(k) ==
    /\ Answered("remove", btree_prototype_remove(Tree, k))
    /\ Uncounted

NextParent ==
    \/ \E v \in Values(dom) : ParentAdd(v)
    \/ \E k \in SearchKeys(dom) : ParentRemove(k)

SpecParent == InitParent /\ [][NextParent]_vars

(* ------------------------------------------------------------------ *)
(* The properties                                                      *)
(* ------------------------------------------------------------------ *)

\* the order of two strings: code unit by code unit, a prefix first
RECURSIVE LexLeq(_, _)
LexLeq(x, y) ==
    IF x = <<>> THEN TRUE
    ELSE IF y = <<>> THEN FALSE
    ELSE IF Head(x) # Head(y) THEN Head(x) < Head(y)
    ELSE LexLeq(Tail(x), Tail(y))

\* the order of two keys of one kind: numeric for numbers, lexicographic for
\* strings
KeyLeq(a, b) ==
    IF a.t = "number" /\ b.t = "number" THEN a.n <= b.n
    ELSE IF a.t = "string" /\ b.t = "string" THEN LexLeq(a.s, b.s)
    ELSE FALSE

\* ks is in non-decreasing order
NonDecreasing(ks) == \A i \in 1..(Len(ks) - 1) : KeyLeq(ks[i], ks[i + 1])

\* how many times v occurs in the sequence s
Occurrences(s, v) == Cardinality({i \in 1..Len(s) : s[i] = v})

\* the two sequences hold the same elements the same number of times
SameMultiset(s1, s2) ==
    /\ Len(s1) = Len(s2)
    /\ \A i \in 1..Len(s1) : Occurrences(s1, s1[i]) = Occurrences(s2, s1[i])

\* the nodes under node as <<key, value>> entries: left subtree, node, right
\* subtree
RECURSIVE EntriesOf(_, _)
EntriesOf(h, node) ==
    IF node = NullNode THEN <<>>
    ELSE EntriesOf(h, h[node].left) \o << <<h[node].key, h[node].value>> >>
         \o EntriesOf(h, h[node].right)

Entries(t) == EntriesOf(t.nodes, t.root)

\* the values stored under key k, in that order
StoredUnder(t, k) ==
    [i \in 1..Len(SelectSeq(Entries(t), LAMBDA e : e[1] = k)) |->
        SelectSeq(Entries(t), LAMBDA e : e[1] = k)[i][2]]

\* the stored values whose property p is w, in items() order
WithProperty(t, p, w) == SelectSeq(items(t), LAMBDA v : GetProp(v, p) = w)

\* the stored values a query is to match: those stored under the scalar key,
\* or those whose property equals the one of the criteria object
MatchesOf(t, q) ==
    IF q.key = CriteriaKey
    THEN WithProperty(t, q.crit[1][1], q.crit[1][2])
    ELSE StoredUnder(t, q.key)

\* s is an element of the sequence seq
In(s, seq) == \E i \in 1..Len(seq) : seq[i] = s

\* the keys of the tree were always of one kind, numbers or strings
OneScalarKind ==
    /\ ~everMixed
    /\ \A i \in 1..Len(Keys(Tree)) : Keys(Tree)[i].t \in {"number", "string"}

C2_SizeAccounting == pure => size(Tree) = nAdd - nRemove

\* C3: on a non-empty tree of numbers or of strings, balance() leaves the
\* multiset of items() as it was.
C3_BalanceKeepsMultiset ==
    (dom \in {"num", "str"} /\ root # NullNode)
        => SameMultiset(items(balance(Tree).t), items(Tree))

\* C4: on a non-empty tree of objects, several of which may share a key,
\* balance() leaves the sequence items() as it was.
C4_BalanceKeepsSequence ==
    (dom = "obj" /\ root # NullNode /\ ~everMixed)
        => items(balance(Tree).t) = items(Tree)

\* C5: on a tree of one kind of key, for a key k held by exactly one item,
\* remove(k) returns without error, find(k) then yields an empty result, and
\* size() is one less than before.
C5_RemoveHeldOnce ==
    \A k \in SearchKeys(dom) :
        (~everMixed /\ Len(StoredUnder(Tree, k)) = 1)
            => /\ remove(Tree, k, <<>>).err = ""
               /\ find(remove(Tree, k, <<>>).t, k, <<>>).err = ""
               /\ ~find(remove(Tree, k, <<>>).t, k, <<>>).single
               /\ find(remove(Tree, k, <<>>).t, k, <<>>).res = <<>>
               /\ size(remove(Tree, k, <<>>).t) = size(Tree) - 1

C7_FindContract ==
    (~everMixed /\ last.err = "" /\ last.op \in {"find", "findAll"}
     /\ (answer.q.key = CriteriaKey => Len(answer.q.crit) = 1))
        => IF last.op = "find" /\ Len(MatchesOf(Tree, answer.q)) = 1
           THEN answer.single /\ answer.res = MatchesOf(Tree, answer.q)
           ELSE ~answer.single /\ Len(answer.res) = Len(MatchesOf(Tree, answer.q))

\* C7 amended: on a tree of one kind of key, find(x) for a scalar key x returns
\* one item stored under x, unwrapped, whenever at least one is stored under x,
\* and an empty sequence when none is; for a criteria object x it returns the
\* matching item itself when exactly one matches and otherwise the sequence of
\* all matches; findAll(x) returns a sequence.
C7_FindContractAmended ==
    (~everMixed /\ last.err = "" /\ last.op \in {"find", "findAll"}
     /\ (answer.q.key = CriteriaKey => Len(answer.q.crit) = 1))
        => /\ last.op = "findAll" => ~answer.single
           /\ (last.op = "find" /\ answer.q.key = CriteriaKey)
                => /\ answer.single = (Len(MatchesOf(Tree, answer.q)) = 1)
                   /\ answer.res = MatchesOf(Tree, answer.q)
           /\ (last.op = "find" /\ answer.q.key # CriteriaKey)
                => IF Len(MatchesOf(Tree, answer.q)) = 0
                   THEN ~answer.single /\ answer.res = <<>>
                   ELSE /\ answer.single
                        /\ Len(answer.res) = 1
                        /\ In(answer.res[1], MatchesOf(Tree, answer.q))

\* C7 witness: find(k) has just returned one unwrapped item on a tree of one
\* kind of key that stores two different items under k.
C7_Witness ==
    /\ ~everMixed
    /\ last.op = "find" /\ last.err = ""
    /\ answer.q.key # CriteriaKey
    /\ answer.single
    /\ \E i, j \in 1..Len(MatchesOf(Tree, answer.q)) :
            MatchesOf(Tree, answer.q)[i] # MatchesOf(Tree, answer.q)[j]

\* C8: after exactly two items have been added to the empty tree, both under
\* key k, findAll(k) returns a sequence of both, and find(k) returns the one
\* added first.
C8_Duplicates ==
    \A k \in SearchKeys(dom) :
        (pure /\ nAdd = 2 /\ nRemove = 0 /\ Len(StoredUnder(Tree, k)) = 2)
            => /\ findAll(Tree, k, <<>>).err = ""
               /\ findAll(Tree, k, <<>>).res = StoredUnder(Tree, k)
               /\ find(Tree, k, <<>>).res = <<StoredUnder(Tree, k)[1]>>

\* C9: find and findAll with a criteria object match, in items() order, the
\* stored values whose property named by the last property of the criteria
\* equals that property's value, whatever the key field; find unwraps a single
\* match; criteria without a property are an error.
C9_FindByCriteria ==
    (last.op \in {"find", "findAll"} /\ answer.q.key = CriteriaKey)
        => IF Len(answer.q.crit) = 0
           THEN last.err = "Search object must have at least one property"
           ELSE /\ last.err = ""
                /\ answer.res = WithProperty(Tree,
                                    answer.q.crit[Len(answer.q.crit)][1],
                                    answer.q.crit[Len(answer.q.crit)][2])
                /\ answer.single = (last.op = "find" /\ Len(answer.res) = 1)

\* C9 witness: find has just answered criteria of two properties, and a stored
\* value that has the first property but not the last is not in the answer.
C9_Witness ==
    /\ last.op = "find" /\ last.err = ""
    /\ answer.q.key = CriteriaKey
    /\ Len(answer.q.crit) = 2
    /\ Len(answer.res) >= 1
    /\ \E i \in 1..Len(items(Tree)) :
          /\ GetProp(items(Tree)[i], answer.q.crit[1][1]) = answer.q.crit[1][2]
          /\ ~In(items(Tree)[i], answer.res)

\* C10: on a non-empty tree of objects, keyed by a string or by a number
\* field, isBalanced() returns true right after balance().
C10_BalancedAfterBalance ==
    (dom = "obj" /\ root # NullNode /\ ~everMixed)
        => /\ isBalanced(balance(Tree).t).err = ""
           /\ isBalanced(balance(Tree).t).val

\* C11: after one or more add calls of single values on the empty tree, and no
\* other call, isBalanced() returns true.
C11_BalancedAfterAdds ==
    (pure /\ nAdd >= 1 /\ nRemove = 0)
        => isBalanced(Tree).err = "" /\ isBalanced(Tree).val

\* the number of nodes on the longest path from node down to a leaf
RECURSIVE HeightOf(_, _)
HeightOf(h, node) ==
    IF node = NullNode THEN 0
    ELSE 1 + (IF HeightOf(h, h[node].left) >= HeightOf(h, h[node].right)
              THEN HeightOf(h, h[node].left) ELSE HeightOf(h, h[node].right))

Height(t) == HeightOf(t.nodes, t.root)

\* ceil(log2(n)) for n >= 1: the least k with 2^k >= n
CeilLog2(n) == CHOOSE k \in 0..n : 2^k >= n /\ \A j \in 0..(k - 1) : 2^j < n

\* C12: after balance() on a tree of n >= 1 distinct keys, whatever the order
\* they were added in, the height of the tree is at most ceil(log2(n)) + 1.
C12_HeightAfterBalance ==
    (last.op = "balance" /\ last.err = "" /\ root # NullNode)
        => Height(Tree) <= CeilLog2(size(Tree)) + 1

\* C12 witness: balance() has just returned on a tree that holds the keys
\* 1 .. 4 and is of height 3.
C12_Witness ==
    /\ last.op = "balance" /\ last.err = ""
    /\ {Keys(Tree)[i] : i \in 1..Len(Keys(Tree))} = {PN(i) : i \in 1..4}
    /\ Height(Tree) = 3

\* C13: after every add and every remove, with no balance() call, the heights
\* of the two subtrees of the root differ by at most 1 and the height of the
\* tree is at most ceil(log2(n)) + 1 for the n keys held.
C13_SelfBalancing ==
    (pure /\ root # NullNode)
        => /\ HeightOf(nodes, nodes[root].left) - HeightOf(nodes, nodes[root].right) \in -1..1
           /\ Height(Tree) <= CeilLog2(size(Tree)) + 1


\* the arguments of add(value, key), value not an array, that fail validation:
\* a null or undefined value, a key given that is neither a string nor a
\* number, and with no key given an object that does not own the key field or
\* holds null or undefined in it, a function or a boolean
FailsValidation(t, v, k) ==
    \/ v.t \in {"undefined", "null"}
    \/ k.t # "undefined" /\ k.t \notin {"string", "number"}
    \/ /\ k.t = "undefined"
       /\ v.t = "object"
       /\ \/ ~hasOwnProperty(v, PropName(t.options.key))
          \/ GetProp(v, PropName(t.options.key)).t \in {"undefined", "null"}
    \/ k.t = "undefined" /\ v.t \in {"function", "boolean"}

\* C14: add(value, key) with arguments that fail validation reports an error
\* and leaves items() as it was before the call
C14_FailedAddKeepsItems ==
    size(Tree) < Len(nodes) =>
        \A v \in Values(dom) : \A k \in ExplicitKeys(dom) :
            FailsValidation(Tree, v, k) =>
                /\ addOne(Tree, v, k).err # ""
                /\ items(addOne(Tree, v, k).t) = items(Tree)

\* C14 witness: add() of a boolean or a function has just failed on a tree
\* that holds an item
C14_Witness ==
    /\ last.op = "add"
    /\ last.err = "Unsupported value type"
    /\ size(Tree) >= 1

\* the tree after the first n elements of arr were added one by one, with no
\* rebuild
RECURSIVE AddPrefix(_, _, _)
AddPrefix(t, arr, n) ==
    IF n = 0 THEN t
    ELSE addOne(AddPrefix(t, arr, n - 1), arr[n], Undefined).t

\* the element v of add(values) fails: it is null or undefined, does not own
\* the key field, or holds null or undefined in it
ArrayItemFails(t, v) ==
    \/ v.t \in {"undefined", "null"}
    \/ ~hasOwnProperty(v, PropName(t.options.key))
    \/ GetProp(v, PropName(t.options.key)).t \in {"undefined", "null"}

\* a bulk call on t whose first failing element is arr[j] answered r: the
\* error names index j - 1 and the tree is t plus the elements below it
BulkFailure(t, arr, j, r) ==
    /\ r.err # ""
    /\ r.idx = j - 1
    /\ r.t = AddPrefix(t, arr, j - 1)

\* C15: init(values) and add(values) that fail at the element with index i
\* report index i, hold every element below i and none from i on, and have
\* run no rebuild
C15_BulkFailureNamesIndex ==
    size(Tree) + MaxBulk <= Len(nodes) =>
        /\ \A arr \in AddArrays(dom) : \A j \in 1..Len(arr) :
              (/\ ArrayItemFails(Tree, arr[j])
               /\ \A m \in 1..(j - 1) : ~ArrayItemFails(Tree, arr[m]))
              => BulkFailure(Tree, arr, j, add(Tree, ArrayValue, Undefined, arr))
        /\ \A arr \in InitArrays(dom) : \A j \in 1..Len(arr) :
              (/\ FailsValidation(Tree, arr[j], Undefined)
               /\ \A m \in 1..(j - 1) : ~FailsValidation(Tree, arr[m], Undefined))
              => BulkFailure(Tree, arr, j, init(Tree, [t |-> "array", a |-> arr], NoOptions))

\* C16: init(values, options) fails with 'Key option must be a string' when
\* options.key is given and is not a string, null included, and with 'Values
\* must be an array' when values is given and is not an array, null included
C16_InitValidation ==
    \A values \in InitValuesIn(dom) : \A opts \in OptionsIn(dom) :
        size(Tree) + Len(values.a) <= Len(nodes) =>
            /\ (opts.t = "object" /\ opts.key.t \notin {"absent", "string"})
                  => init(Tree, values, opts).err = "Key option must be a string"
            /\ (opts = NoOptions /\ values.t \notin {"undefined", "array"})
                  => init(Tree, values, opts).err = "Values must be an array"

\* C18: every key stored in the tree is a string, a number or a date; add() of
\* an object whose key field holds a value of another kind inserts nothing
C18_KeyKinds ==
    \A i \in 1..Len(Keys(Tree)) : Keys(Tree)[i].t \in {"string", "number", "date"}

\* every key below node.left is less than node.key and every key below
\* node.right is greater than or equal to it, for every node below root
StrictBST(h, r) ==
    \A n \in Reach(h, r) :
        /\ \A m \in Reach(h, h[n].left) : JsLt(h[m].key, h[n].key)
        /\ \A m \in Reach(h, h[n].right) : JsGe(h[m].key, h[n].key)

\* C20: while the keys are of one scalar kind, duplicates allowed, every node
\* has only smaller keys in its left subtree and only greater or equal keys in
\* its right subtree
C20_StrictBST == OneScalarKind => StrictBST(nodes, root)

\* C20 witness: add() has just put a duplicate of the root's key to the right
\* of a root with two children, and the two-child deletion of the root's key
\* leaves the copied key at the root with the smaller key to its left
C20_Witness ==
    /\ OneScalarKind
    /\ last.op = "add"
    /\ last.err = ""
    /\ nodes[root].left # NullNode
    /\ nodes[root].right # NullNode
    /\ nodes[nodes[root].right].key = nodes[root].key
    /\ Keys(remove(Tree, nodes[root].key, <<>>).t)
          = <<nodes[nodes[root].left].key, nodes[root].key>>

\* the values stored under a smallest key and under a largest key of the tree
UnderSmallest(t) ==
    {t.nodes[n].value : n \in {n \in Reach(t.nodes, t.root) :
        \A m \in Reach(t.nodes, t.root) : ~JsLt(t.nodes[m].key, t.nodes[n].key)}}
UnderLargest(t) ==
    {t.nodes[n].value : n \in {n \in Reach(t.nodes, t.root) :
        \A m \in Reach(t.nodes, t.root) : ~JsGt(t.nodes[m].key, t.nodes[n].key)}}

\* a call of minimum(), maximum(), getMinimumNode() or getMaximumNode(): on the
\* empty tree it fails and the tree stays empty, on another tree minimum() and
\* maximum() return the first and the last element of items(), stored under a
\* smallest and a largest key when the keys are of one scalar kind
ExtremeStep ==
    /\ (last'.op \in {"minimum", "maximum", "getMinimumNode", "getMaximumNode"}
        /\ root = NullNode)
           => (last'.err # "" /\ root' = NullNode /\ items(Tree') = <<>>)
    /\ (last'.op = "minimum" /\ root # NullNode)
           => /\ last'.err = ""
              /\ answer'.res = <<items(Tree)[1]>>
              /\ OneScalarKind => answer'.res[1] \in UnderSmallest(Tree)
              /\ Tree' = Tree
    /\ (last'.op = "maximum" /\ root # NullNode)
           => /\ last'.err = ""
              /\ answer'.res = <<items(Tree)[Len(items(Tree))]>>
              /\ OneScalarKind => answer'.res[1] \in UnderLargest(Tree)
              /\ Tree' = Tree

C19_BackwardCompatible == last.op # "new" => Alike

\* the nodes of t that are in use
Used(t) == {n \in DOMAIN t.nodes : t.nodes[n].used}

\* the tree u is the tree t plus one new leaf: the root is the same node, one
\* node is new and has no children, one node of t has the new node as a child
\* where it had none, and every node of t keeps its key, its value and its
\* other children
OneNewLeaf(t, u) ==
    /\ u.root = t.root
    /\ \E new \in Used(u) \ Used(t) :
          /\ Used(u) = Used(t) \cup {new}
          /\ u.nodes[new].left = NullNode
          /\ u.nodes[new].right = NullNode
          /\ \E p \in Used(t) :
                /\ \/ /\ t.nodes[p].left = NullNode
                      /\ u.nodes[p].left = new
                      /\ u.nodes[p].right = t.nodes[p].right
                   \/ /\ t.nodes[p].right = NullNode
                      /\ u.nodes[p].right = new
                      /\ u.nodes[p].left = t.nodes[p].left
                /\ \A n \in Used(t) \ {p} :
                      /\ u.nodes[n].left = t.nodes[n].left
                      /\ u.nodes[n].right = t.nodes[n].right
          /\ \A n \in Used(t) :
                /\ u.nodes[n].key = t.nodes[n].key
                /\ u.nodes[n].value = t.nodes[n].value

\* C21: add(value) and add(value, key) of a value that is not an array, when
\* it returns on a non-empty tree, has created exactly one new leaf and has
\* left the root and every other node as they were
C21_AddOneLeaf ==
    (root # NullNode /\ size(Tree) < Len(nodes)) =>
        \A v \in Values(dom) : \A k \in ExplicitKeys(dom) :
            add(Tree, v, k, <<>>).err = "" => OneNewLeaf(Tree, add(Tree, v, k, <<>>).t)

\* the nodes under node in traversal order: left subtree, node, right subtree
RECURSIVE Inorder(_, _)
Inorder(h, node) ==
    IF node = NullNode THEN <<>>
    ELSE Inorder(h, h[node].left) \o <<node>> \o Inorder(h, h[node].right)

\* the sequence s without its i-th element
Without(s, i) == SubSeq(s, 1, i - 1) \o SubSeq(s, i + 1, Len(s))

\* remove(k) on t answered r: it returned, and items() is what it was without
\* the item of the node that find(k) located
RemovedFound(t, k, r) ==
    /\ r.err = ""
    /\ size(r.t) = size(t) - 1
    /\ items(r.t) = Without(items(t), IndexIn(Inorder(t.nodes, t.root),
                                              _getByKey(t.nodes, k, t.root)))

\* C22: when several items share the key k, remove(k) removes the item that
\* find(k) returns, and only it: the other items keep their order in items()
\* and size() drops by 1
C22_RemoveAmongDuplicates ==
    \A k \in SearchKeys(dom) :
        (OneScalarKind /\ Len(StoredUnder(Tree, k)) >= 2)
            => RemovedFound(Tree, k, remove(Tree, k, <<>>))

\* the number of nodes under node
Count(h, node) == Cardinality(Reach(h, node))

\* the keys of the tree are pairwise distinct
DistinctKeys(t) ==
    \A i, j \in 1..Len(Keys(t)) : Keys(t)[i] = Keys(t)[j] => i = j

\* balance() on t answered r: the root holds the item at index ceil(n/2) - 1
\* of items(), and under every node the right subtree has as many nodes as
\* the left one, or one more
MedianShape(t, r) ==
    /\ r.err = ""
    /\ r.t.root # NullNode
    /\ r.t.nodes[r.t.root].value = items(t)[CeilHalf(size(t))]
    /\ \A n \in Reach(r.t.nodes, r.t.root) :
          Count(r.t.nodes, r.t.nodes[n].right) - Count(r.t.nodes, r.t.nodes[n].left)
              \in {0, 1}

\* C23: balance() on a tree of n >= 1 items with pairwise distinct keys puts
\* the item at index ceil(n/2) - 1 of the sorted sequence at the root, and
\* under every node the right subtree has as many nodes as the left one or
\* exactly one more
C23_MedianAtRoot ==
    (root # NullNode /\ OneScalarKind /\ DistinctKeys(Tree))
        => MedianShape(Tree, balance(Tree))

\* C24: on every tree of scalar keys, built by hand or by add, isBalanced()
\* returns true exactly when every node has only smaller keys to its left and
\* only greater or equal keys to its right
C24_IsBalancedExact ==
    (last.op = "isBalanced" /\ root # NullNode)
        => (last.err = "" /\ answer.val = StrictBST(nodes, root))

\* C25: isBalanced() on an empty tree, whether new, cleared or emptied by
\* remove, returns true and does not fail
C25_EmptyIsBalanced ==
    (last.op = "isBalanced" /\ root = NullNode) => (last.err = "" /\ answer.val)

\* C26: init(values, options) that fails because values is not an array leaves
\* the tree as it was: the same items() and the same options.key, whatever the
\* options argument
C26_FailedInitKeepsTree ==
    \A values \in InitValuesIn("bad") : \A opts \in OptionsIn("obj") :
        (values.t # "array" /\ init(Tree, values, opts).err = "Values must be an array")
            => /\ items(init(Tree, values, opts).t) = items(Tree)
               /\ init(Tree, values, opts).t.options = options

\* C27: remove(k) on a non-empty tree reports not-found exactly when no node
\* has the key k; when some node has it, the call returns and removes an item
C27_NotFoundExact ==
    \A k \in SearchKeys(dom) :
        (root # NullNode /\ OneScalarKind) =>
            /\ (remove(Tree, k, <<>>).err = "Key not found in tree")
                   = (Len(StoredUnder(Tree, k)) = 0)
            /\ Len(StoredUnder(Tree, k)) > 0 =>
                   /\ remove(Tree, k, <<>>).err = ""
                   /\ size(remove(Tree, k, <<>>).t) = size(Tree) - 1

\* balance() on t answered r: it returned, and every item of t is stored in
\* r.t under the key it had in t
KeptKeys(t, r) ==
    /\ r.err = ""
    /\ \A i \in 1..Len(Entries(t)) :
          In(Entries(t)[i][2], StoredUnder(r.t, Entries(t)[i][1]))

\* C28: balance() returns without error and keeps every item under the key it
\* had before the call, items added under an explicit key included
C28_BalanceKeepsKeys == KeptKeys(Tree, balance(Tree))

\* C29: the parent field of the root is null and the parent field of every
\* other node names the node whose left or right child it is
C29_ParentLinks ==
    root # NullNode =>
        /\ nodes[root].parent = NullNode
        /\ \A n \in Reach(nodes, root) :
              /\ nodes[n].left # NullNode => nodes[nodes[n].left].parent = n
              /\ nodes[n].right # NullNode => nodes[nodes[n].right].parent = n

\* remove(k) of the variant turned t into r: items() lost one item stored
\* under k, and every other item is where it was
SplicedOne(t, k, r) ==
    \E i \in 1..Len(Keys(t)) :
        /\ StrictEq(Keys(t)[i], k)
        /\ parent_items(r.t) = Without(parent_items(t), i)

\* C30: in the variant that deletes through parent pointers, remove(k) for a
\* key k of the tree removes exactly one item stored under k and leaves every
\* other item in place, wherever the node of k is: items() is one element
\* shorter
C30_ParentRemove ==
    \A k \in SearchKeys(dom) :
        (\E i \in 1..Len(Keys(Tree)) : StrictEq(Keys(Tree)[i], k))
            => SplicedOne(Tree, k, btree_prototype_remove(Tree, k))
====
